---- MODULE Spec2Model ----
(***************************************************************************)
(* Model of package migrate (src/migrate/migrate.go): a Service holds a    *)
(* list of migrations and applies them one per Upgrade() call against a    *)
(* database whose dbVersion table records the applied versions.            *)
(*                                                                         *)
(* The database is modelled by its durable content: the rows of dbVersion  *)
(* (rows) and the committed effects of migration bodies (applied).  Every  *)
(* database call can fail; the outcome of each call is drawn with \E, that *)
(* of registering a statement included.                                    *)
(*                                                                         *)
(* Upgrade() is split at its database calls, so that the state between two *)
(* calls is visible: UpgradeStart (lines 95-112), UpgradeRun (123-127),    *)
(* UpgradeInsert (129-133), UpgradeCommit (135-143); the deferred rollback *)
(* (114-121) is part of whichever step returns.  Each caller of Procs owns *)
(* a Service (err, the locals of Upgrade); the callers were given the same *)
(* migrations and share the database.  Under Spec one caller runs, so its  *)
(* calls are serialized.                                                   *)
(*                                                                         *)
(* Beside the program's state the model keeps what the most recent call of *)
(* each caller did (ret, sel, ran, rolledBack, before, stage, ...), for    *)
(* the properties to speak of; the program never reads these.              *)
(***************************************************************************)
EXTENDS Integers, Sequences, FiniteSets, TLC

\* ---------------------------------------------------------------- bounds
MaxVersion == 2
MaxMigrations == 2
MaxFiles == 2

Versions == 1..MaxVersion
Procs == {"a", "b"}
Kinds == {"sql", "so"}

VARIABLES
  inited,      \* Init() has succeeded: the table and the two statements exist
  migrations,  \* Service.migrations
  loadErr,     \* what LoadMigrations returned, if it is the call just made ("none" otherwise)
  rows,        \* versions held by table dbVersion (committed)
  applied,     \* versions whose body effects are committed, in commit order
  pc,          \* per caller: where its Upgrade() call stands
  err,         \* per caller: Service.err
  ret,         \* per caller: what the most recent Upgrade() returned
  version,     \* per caller: local `version` of Upgrade
  sel,         \* per caller: the migration the scan selected (NoMigration if none)
  tx,          \* per caller: local `tx` is an open transaction
  txBody,      \* per caller: the open transaction holds the body's effects
  ran,         \* per caller: the body was executed in the most recent call
  rolledBack,  \* per caller: the most recent call attempted a rollback
  before,      \* per caller: the committed version when the most recent call began
  exh,         \* per caller: a call returned false with Err() nil and the set is unchanged since
  exhAtCall,   \* per caller: exh when the most recent call began
  failedV,     \* per caller: version the most recent call failed to apply with its transaction open (set unchanged since), else 0
  prevFail,    \* per caller: failedV when the most recent call began
  stage,       \* per caller: the step at which the most recent call failed ("none" if it did not)
  regFailed,   \* per caller: registering the statement failed in the most recent call
  rollbackErr, \* per caller: the rollback of the most recent call failed
  idx,         \* per caller: index in migrations of the migration the scan selected (0 if none)
  quota        \* the distinct versions of the set above CurrentVersion() when the set last changed, less the calls that returned true since

svcVars == <<inited, migrations>>
dbVars == <<rows, applied>>
callVars == <<pc, err, ret, version, sel, tx, txBody, ran, rolledBack, before,
              exh, exhAtCall, failedV, prevFail, stage, regFailed, rollbackErr, idx, quota>>
vars == <<inited, migrations, loadErr, rows, applied,
          pc, err, ret, version, sel, tx, txBody, ran, rolledBack, before,
          exh, exhAtCall, failedV, prevFail, stage, regFailed, rollbackErr, idx,
          quota>>

NoMigration == [version |-> 0, kind |-> "none"]
Migrations == [version : Versions, kind : Kinds]

\* ------------------------------------------------------------ helpers
Max(S) == CHOOSE x \in S : \A y \in S : y <= x
Min(S) == CHOOSE x \in S : \A y \in S : x <= y
Range(s) == {s[i] : i \in 1..Len(s)}
VersionsOf(ms) == {ms[i].version : i \in 1..Len(ms)}

\* (getDbVersion with the select ordered by version asc)
getDbVersionAsc(rs) == IF rs = {} THEN -1 ELSE Min(rs)

\* dbVersion rows -> result of getDbVersion when the select succeeds
getDbVersion(rs) == IF rs = {} THEN -1 ELSE Max(rs)

\* the less function handed to sort.SliceStable
Less(a, b) == a.version < b.version

\* one insertion step of a stable sort: m goes behind everything not greater
InsertStable(sorted, m) ==
  SelectSeq(sorted, LAMBDA x : ~Less(m, x)) \o <<m>> \o
  SelectSeq(sorted, LAMBDA x : Less(m, x))

RECURSIVE SliceStable(_)
SliceStable(ms) ==
  IF ms = <<>> THEN <<>>
  ELSE InsertStable(SliceStable(SubSeq(ms, 1, Len(ms) - 1)), ms[Len(ms)])

IsSorted(ms) == \A i, j \in 1..Len(ms) : i < j => ms[i].version <= ms[j].version

Upd(f, c, v) == [f EXCEPT ![c] = v]
AllIdle == \A c \in Procs : pc[c] = "idle"
NoneOf == [c \in Procs |-> FALSE]
ZeroOf == [c \in Procs |-> 0]

\* ------------------------------------------------ migration source loader
\* Names are sequences of characters.  A directory entry is the name of the
\* file up to its extension, the extension (lower case, as the switch of
\* getMigrations sees it), and whether opening and reading it (sql) or loading
\* its Runner symbol (so) succeeds.  Entries come in any order of versions:
\* ReadDir sorts by name, and names such as 02_x.sql and 1_y.sql sort against
\* their versions.
Digits == <<"0", "1", "2", "3", "4", "5", "6", "7", "8", "9">>
DigitSet == {Digits[k] : k \in 1..Len(Digits)}
IsDigit(ch) == ch \in DigitSet
DigitVal(ch) == (CHOOSE k \in 1..Len(Digits) : Digits[k] = ch) - 1

\* names the file name pattern is meant for: <version>_a, and 01_a
VersionNames == {<<Digits[d + 1], "_", "a">> : d \in Versions} \cup {<<"0", "1", "_", "a">>}
\* a name without digits
PlainName == <<"a">>
\* the folders handed to LoadMigrations: one without digits in its name, one
\* named like a migration
PlainDir == <<"m">>
VersionDir == <<"1", "_", "m">>
Dirs == {PlainDir, VersionDir}

Entries ==
  [name : VersionNames, ext : Kinds, ok : {TRUE}] \cup
  {[name |-> PlainName, ext |-> "sql", ok |-> TRUE],
   [name |-> <<"1", "_", "a">>, ext |-> "sql", ok |-> FALSE],
   [name |-> <<"1", "_", "a">>, ext |-> "so", ok |-> FALSE],
   [name |-> <<"1", "_", "a">>, ext |-> "txt", ok |-> TRUE],
   [name |-> PlainName, ext |-> "txt", ok |-> TRUE]}

\* path.Join(folder, file.Name()), up to the extension
Join(dir, name) == dir \o <<"/">> \o name

\* the end of the run of digits of p that begins at i
RECURSIVE RunEnd(_, _)
RunEnd(p, i) == IF i < Len(p) /\ IsDigit(p[i + 1]) THEN RunEnd(p, i + 1) ELSE i

\* fileNameRegex.FindStringSubmatch(path)[1] for a path that ends in .sql or
\* .so: the pattern is not anchored, so the match is the leftmost run of digits
\* of the whole path that an underscore follows; <<>> when there is none
FindDigits(p) ==
  LET S == {i \in 1..Len(p) : /\ IsDigit(p[i])
                              /\ RunEnd(p, i) < Len(p)
                              /\ p[RunEnd(p, i) + 1] = "_"}
  IN IF S = {} THEN <<>> ELSE SubSeq(p, Min(S), RunEnd(p, Min(S)))

\* strconv.Atoi on a string of decimal digits
RECURSIVE Atoi(_)
Atoi(ds) ==
  IF ds = <<>> THEN 0
  ELSE Atoi(SubSeq(ds, 1, Len(ds) - 1)) * 10 + DigitVal(ds[Len(ds)])

\* fileNameRegex.FindStringSubmatch finds a match
FileNameMatches(digits) == digits # <<>>

\* NewSQLMigrationFile / NewPluginMigration: the migration or the error
NewMigrationFile(dir, f) ==
  LET digits == FindDigits(Join(dir, f.name))
  IN IF ~FileNameMatches(digits)
       THEN [err |-> "ErrInvalidMigrationFileName", m |-> NoMigration]
     ELSE IF ~f.ok
       THEN [err |-> IF f.ext = "sql" THEN "open" ELSE "plugin", m |-> NoMigration]
     ELSE [err |-> "nil", m |-> [version |-> Atoi(digits), kind |-> f.ext]]

\* the switch on the extension: what one turn of the loop of getMigrations
\* makes of an entry
Classify(dir, f) ==
  IF f.ext \notin Kinds THEN [err |-> "ErrUnknownMigrationType", m |-> NoMigration]
  ELSE NewMigrationFile(dir, f)

RECURSIVE ClassifyAll(_, _)
ClassifyAll(dir, files) ==
  IF files = <<>> THEN <<>>
  ELSE <<Classify(dir, Head(files))>> \o ClassifyAll(dir, Tail(files))

\* the listings handed to the loader, each with what the loop makes of its
\* entries: whatever follows the first entry that fails is never looked at, so
\* a failing entry is listed last
GoodPrefix(made) == \A i \in 1..(Len(made) - 1) : made[i].err = "nil"
\* a directory holds a file name once
DistinctNames(files) ==
  \A i, j \in 1..Len(files) :
     (files[i].name = files[j].name /\ files[i].ext = files[j].ext) => i = j
FoldersOfLen(n) ==
  {x \in {[dir |-> y[1], files |-> y[2], made |-> ClassifyAll(y[1], y[2])] :
             y \in Dirs \X {files \in [1..n -> Entries] : DistinctNames(files)}} :
     GoodPrefix(x.made)}
\* the listings by length: FoldersByLen[n + 1] holds those of n entries
RECURSIVE FoldersUpTo(_)
FoldersUpTo(n) == IF n < 0 THEN <<>> ELSE Append(FoldersUpTo(n - 1), FoldersOfLen(n))
FoldersByLen == FoldersUpTo(MaxFiles)
Folders == UNION {FoldersByLen[n + 1] : n \in 0..MaxFiles}

\* the loop and the sort of getMigrations: the list and the error it ends with
RECURSIVE LoadFiles(_, _)
LoadFiles(ms, made) ==
  IF made = <<>> THEN [migrations |-> SliceStable(ms), err |-> "nil"]
  ELSE IF Head(made).err # "nil" THEN [migrations |-> ms, err |-> Head(made).err]
  ELSE LoadFiles(Append(ms, Head(made).m), Tail(made))

getMigrations(ms, made, readDirOk) ==
  IF ~readDirOk THEN [migrations |-> ms, err |-> "readdir"]
  ELSE LoadFiles(ms, made)

\* ------------------------------------------------------------- setup
Init ==
  /\ inited = FALSE
  /\ migrations = <<>>
  /\ loadErr = "none"
  /\ rows = {}
  /\ applied = <<>>
  /\ pc = [c \in Procs |-> "idle"]
  /\ err = [c \in Procs |-> "nil"]
  /\ ret = [c \in Procs |-> "none"]
  /\ version = ZeroOf
  /\ sel = [c \in Procs |-> NoMigration]
  /\ tx = NoneOf
  /\ txBody = NoneOf
  /\ ran = NoneOf
  /\ rolledBack = NoneOf
  /\ before = [c \in Procs |-> -1]
  /\ exh = NoneOf
  /\ exhAtCall = NoneOf
  /\ failedV = ZeroOf
  /\ prevFail = ZeroOf
  /\ stage = [c \in Procs |-> "none"]
  /\ regFailed = NoneOf
  /\ rollbackErr = NoneOf
  /\ idx = ZeroOf
  /\ quota = 0

\* Service.Init: create the table, register the two statements
ServiceInit ==
  /\ AllIdle
  /\ \E ok \in BOOLEAN : inited' = (inited \/ ok)
  /\ loadErr' = "none"
  /\ UNCHANGED <<migrations, dbVars, callVars>>

\* what is remembered of the callers' last calls describes them against the
\* set as it was: when the set changes it is forgotten (Service.err stays)
SetChanged ==
  IF migrations' = migrations
    THEN UNCHANGED <<ret, version, sel, ran, rolledBack, before, exh, exhAtCall,
                     failedV, prevFail, stage, regFailed, rollbackErr, idx, quota>>
  ELSE /\ ret' = [c \in Procs |-> "none"]
       /\ version' = ZeroOf
       /\ sel' = [c \in Procs |-> NoMigration]
       /\ ran' = NoneOf
       /\ rolledBack' = NoneOf
       /\ before' = [c \in Procs |-> -1]
       /\ exh' = NoneOf
       /\ exhAtCall' = NoneOf
       /\ failedV' = ZeroOf
       /\ prevFail' = ZeroOf
       /\ stage' = [c \in Procs |-> "none"]
       /\ regFailed' = NoneOf
       /\ rollbackErr' = NoneOf
       /\ idx' = ZeroOf
       /\ quota' = Cardinality({w \in VersionsOf(migrations') : w > getDbVersion(rows)})

LoadMigrations(x, readDirOk) ==
  /\ AllIdle
  /\ Len(migrations) + Len(x.files) <= MaxMigrations
  /\ readDirOk \/ x.files = <<>>
  /\ LET r == getMigrations(migrations, x.made, readDirOk)
     IN /\ migrations' = r.migrations
        /\ loadErr' = r.err
  /\ SetChanged
  /\ UNCHANGED <<inited, dbVars, pc, err, tx, txBody>>

AddMigration(m) ==
  /\ AllIdle
  /\ Len(migrations) < MaxMigrations
  /\ migrations' = Append(migrations, m)
  /\ SetChanged
  /\ loadErr' = "none"
  /\ UNCHANGED <<inited, dbVars, pc, err, tx, txBody>>

\* ------------------------------------------------------------- Upgrade
\* (ClearErr with the assignment left out)
KeepErr(e) == e

\* line 95: svc.err = nil
ClearErr(e) == "nil"

\* (FirstPending taking the last migration whose Version() exceeds v)
LastPending(ms, v) ==
  LET P == {i \in 1..Len(ms) : ms[i].version > v}
  IN IF P = {} THEN 0 ELSE Max(P)

\* lines 103-104: index of the first migration whose Version() exceeds v, else 0
FirstPending(ms, v) ==
  LET P == {i \in 1..Len(ms) : ms[i].version > v}
  IN IF P = {} THEN 0 ELSE Min(P)

\* (Deferred dropping the error of the rollback)
DeferredQuiet(e, rollbackOk) == e

\* lines 114-121: the deferred function, run when err # nil and tx # nil;
\* e is svc.err as the failing step set it
Deferred(e, rollbackOk) == IF rollbackOk THEN e ELSE "rollback"

\* (SQLMigrationRun returning the registration error)
SQLMigrationRunStrict(regOk, execOk) ==
  IF ~regOk THEN [registers |-> FALSE, executes |-> FALSE, fails |-> TRUE]
  ELSE [registers |-> TRUE, executes |-> execOk, fails |-> ~execOk]

\* SQLMigration.Run: what happened and whether Run returned an error
SQLMigrationRun(regOk, execOk) ==
  IF ~regOk THEN [registers |-> FALSE, executes |-> FALSE, fails |-> FALSE]
  ELSE [registers |-> TRUE, executes |-> execOk, fails |-> ~execOk]

\* PluginMigration.Run: the runner's result is returned unchanged
PluginMigrationRun(execOk) ==
  [registers |-> FALSE, executes |-> execOk, fails |-> ~execOk]

Run(m, regOk, execOk) ==
  IF m.kind = "sql" THEN SQLMigrationRun(regOk, execOk) ELSE PluginMigrationRun(execOk)

\* (Fail without the deferred function: the transaction is left as it is)
FailNoDefer(c, e, rollbackOk) ==
  /\ err' = Upd(err, c, e)
  /\ ret' = Upd(ret, c, "false")
  /\ pc' = Upd(pc, c, "idle")
  /\ failedV' = Upd(failedV, c, sel[c].version)
  /\ stage' = Upd(stage, c, e)
  /\ UNCHANGED <<tx, txBody, rolledBack, rollbackErr>>

\* a failing step of Upgrade with the transaction open: set svc.err, return
\* false, and the deferred function rolls back
Fail(c, e, rollbackOk) ==
  /\ err' = Upd(err, c, Deferred(e, rollbackOk))
  /\ ret' = Upd(ret, c, "false")
  /\ pc' = Upd(pc, c, "idle")
  /\ tx' = Upd(tx, c, FALSE)
  /\ txBody' = Upd(txBody, c, FALSE)
  /\ rolledBack' = Upd(rolledBack, c, TRUE)
  /\ rollbackErr' = Upd(rollbackErr, c, ~rollbackOk)
  /\ failedV' = Upd(failedV, c, sel[c].version)
  /\ stage' = Upd(stage, c, e)

\* (EarlyFail going on as if a migration had run)
EarlyFailTrue(c, e) ==
  /\ err' = Upd(err, c, e)
  /\ stage' = Upd(stage, c, e)
  /\ ret' = Upd(ret, c, "true")

\* lines 98-101 and 109-112: a failure before a transaction is open: set
\* svc.err and return false
EarlyFail(c, e) ==
  /\ err' = Upd(err, c, e)
  /\ stage' = Upd(stage, c, e)
  /\ ret' = Upd(ret, c, "false")

\* (UpToDate returning true)
UpToDateTrue(c) ==
  /\ err' = Upd(err, c, "nil")
  /\ ret' = Upd(ret, c, "true")
  /\ exh' = Upd(exh, c, TRUE)

\* lines 147-148: no migration is pending
UpToDate(c) ==
  /\ err' = Upd(err, c, "nil")
  /\ ret' = Upd(ret, c, "false")
  /\ exh' = Upd(exh, c, TRUE)

\* (MayStart with a lock held from the version read to the commit)
MayStartLocked(c) == AllIdle

\* lines 94-97: Upgrade takes no lock before it reads the version; a caller
\* enters whenever it is not itself inside a call
MayStart(c) == pc[c] = "idle"

\* lines 95-112 and 147-148: clear the error, read the version, scan, begin
\* the transaction
UpgradeStart(c) ==
  /\ inited
  /\ MayStart(c)
  /\ \E selectOk, beginOk \in BOOLEAN :
       LET v == getDbVersion(rows)
           i == FirstPending(migrations, v)
       IN /\ before' = Upd(before, c, v)
          /\ exhAtCall' = Upd(exhAtCall, c, exh[c])
          /\ prevFail' = Upd(prevFail, c, failedV[c])
          /\ ran' = Upd(ran, c, FALSE)
          /\ rolledBack' = Upd(rolledBack, c, FALSE)
          /\ rollbackErr' = Upd(rollbackErr, c, FALSE)
          /\ regFailed' = Upd(regFailed, c, FALSE)
          /\ idx' = Upd(idx, c, IF selectOk THEN i ELSE 0)
          /\ IF ~selectOk
               THEN /\ version' = Upd(version, c, 0)
                    /\ EarlyFail(c, "get db version")
                    /\ sel' = Upd(sel, c, NoMigration)
                    /\ failedV' = Upd(failedV, c, 0)
                    /\ UNCHANGED <<pc, tx, exh>>
             ELSE IF i = 0
               THEN /\ version' = Upd(version, c, v)
                    /\ UpToDate(c)
                    /\ stage' = Upd(stage, c, "none")
                    /\ sel' = Upd(sel, c, NoMigration)
                    /\ failedV' = Upd(failedV, c, 0)
                    /\ UNCHANGED <<pc, tx>>
             ELSE IF ~beginOk
               THEN /\ version' = Upd(version, c, v)
                    /\ EarlyFail(c, "begin tx")
                    /\ sel' = Upd(sel, c, migrations[i])
                    /\ failedV' = Upd(failedV, c, 0)
                    /\ UNCHANGED <<pc, tx, exh>>
             ELSE /\ version' = Upd(version, c, v)
                  /\ err' = Upd(err, c, ClearErr(err[c]))
                  /\ stage' = Upd(stage, c, "none")
                  /\ ret' = Upd(ret, c, "none")
                  /\ sel' = Upd(sel, c, migrations[i])
                  /\ failedV' = Upd(failedV, c, 0)
                  /\ pc' = Upd(pc, c, "run")
                  /\ tx' = Upd(tx, c, TRUE)
                  /\ UNCHANGED exh
  /\ loadErr' = "none"
  /\ UNCHANGED <<svcVars, dbVars, txBody, quota>>

\* lines 123-127: migration.Run(svc.db, tx)
UpgradeRun(c) ==
  /\ pc[c] = "run"
  /\ \E regOk, execOk, rollbackOk \in BOOLEAN :
       LET r == Run(sel[c], regOk, execOk)
       IN /\ regFailed' = Upd(regFailed, c, sel[c].kind = "sql" /\ ~r.registers)
          /\ IF r.fails
               THEN /\ Fail(c, "exec", rollbackOk)
                    /\ ran' = Upd(ran, c, r.executes)
             ELSE /\ pc' = Upd(pc, c, "insert")
                  /\ txBody' = Upd(txBody, c, r.executes)
                  /\ ran' = Upd(ran, c, r.executes)
                  /\ UNCHANGED <<err, ret, tx, rolledBack, rollbackErr, failedV, stage>>
  /\ loadErr' = "none"
  /\ UNCHANGED <<svcVars, rows, applied, version, sel, before, exh, exhAtCall, prevFail,
                 idx, quota>>

\* (KeyAccepts for a table without a primary key)
KeyAcceptsAny(v, rs) == TRUE

\* line 21: version is the primary key of dbVersion, so a version that has a
\* row is rejected
KeyAccepts(v, rs) == v \notin rs

\* lines 129-133: svc.db.Insert(ctx, "ADD_VERSION", version, t) on the database
\* handle
UpgradeInsert(c) ==
  /\ pc[c] = "insert"
  /\ \E insertOk, rollbackOk \in BOOLEAN :
       IF insertOk /\ KeyAccepts(sel[c].version, rows)
         THEN /\ rows' = rows \cup {sel[c].version}
              /\ pc' = Upd(pc, c, "commit")
              /\ UNCHANGED <<err, ret, tx, txBody, rolledBack, rollbackErr, failedV, stage>>
       ELSE /\ Fail(c, "add version", rollbackOk)
            /\ UNCHANGED rows
  /\ loadErr' = "none"
  /\ UNCHANGED <<svcVars, applied, version, sel, ran, before, exh,
                 exhAtCall, prevFail, regFailed, idx, quota>>

\* lines 135-143: tx.Commit()
UpgradeCommit(c) ==
  /\ pc[c] = "commit"
  /\ \E commitOk, rollbackOk \in BOOLEAN :
       IF commitOk
         THEN /\ applied' = IF txBody[c] THEN Append(applied, sel[c].version)
                            ELSE applied
              /\ tx' = Upd(tx, c, FALSE)
              /\ txBody' = Upd(txBody, c, FALSE)
              /\ ret' = Upd(ret, c, "true")
              /\ pc' = Upd(pc, c, "idle")
              /\ quota' = quota - 1
              /\ UNCHANGED <<err, rolledBack, rollbackErr, failedV, stage>>
       ELSE /\ Fail(c, "commit", rollbackOk)
            /\ UNCHANGED <<applied, quota>>
  /\ loadErr' = "none"
  /\ UNCHANGED <<svcVars, rows, version, sel, ran, before, exh,
                 exhAtCall, prevFail, regFailed, idx>>

\* ------------------------------------------------------ specification
\* one caller at a time: the calls of Upgrade() are serialized
\* the set is kept to MaxMigrations entries
Room ==
  IF MaxMigrations - Len(migrations) < MaxFiles
    THEN MaxMigrations - Len(migrations) ELSE MaxFiles

Setup ==
  \/ ServiceInit
  \/ \E m \in Migrations : AddMigration(m)
  \/ \E n \in 0..Room : \E x \in FoldersByLen[n + 1], readDirOk \in BOOLEAN :
        LoadMigrations(x, readDirOk)

Next ==
  \/ Setup
  \/ UpgradeStart("a")
  \/ UpgradeRun("a")
  \/ UpgradeInsert("a")
  \/ UpgradeCommit("a")

Spec == Init /\ [][Next]_vars

\* two callers that nothing serializes: each step of either call may come
\* between two steps of the other
NextConc ==
  \/ Setup
  \/ \E c \in Procs : UpgradeStart(c)
  \/ \E c \in Procs : UpgradeRun(c)
  \/ \E c \in Procs : UpgradeInsert(c)
  \/ \E c \in Procs : UpgradeCommit(c)

SpecConc == Init /\ [][NextConc]_vars

\* ------------------------------------------------------------- claims
CallStep(c) == UpgradeStart(c) \/ UpgradeRun(c) \/ UpgradeInsert(c) \/ UpgradeCommit(c)
\* the step with which a call of Upgrade() by c returns (a step of a call
\* leaves the set alone)
Returns(c) == pc'[c] = "idle" /\ migrations' = migrations /\ CallStep(c)
\* the versions of the set that exceed v
Pending(ms, v) == {w \in VersionsOf(ms) : w > v}
\* the versions of S in ascending order
RECURSIVE Ascending(_)
Ascending(S) == IF S = {} THEN <<>> ELSE <<Min(S)>> \o Ascending(S \ {Min(S)})
\* c's last call returned false with Err() nil and the set is as it was then
Exhausted(c) == pc[c] = "idle" /\ exh[c] /\ ret[c] = "false" /\ err[c] = "nil"

\* C1: once Upgrade() has returned false with Err() nil, CurrentVersion() is the
\* largest version of the set, and every version of the set was applied exactly
\* once, in ascending order.
C1_UpgradedToMax ==
  \A c \in Procs :
    (Exhausted(c) /\ migrations # <<>>) =>
       /\ getDbVersion(rows) = Max(VersionsOf(migrations))
       /\ applied = Ascending(VersionsOf(migrations))

\* C2: in every state a version has a row in dbVersion exactly if the effects
\* of its body are committed.
C2_RowIffBody == rows = Range(applied)

\* C3: a call that fails at the version-record or at the commit step rolls
\* back, returns false with Err() non-nil, and leaves CurrentVersion() as it
\* was before the call.
C3_LateFailureKeepsVersion ==
  [][\A c \in Procs :
       (Returns(c) /\ stage'[c] \in {"add version", "commit"}) =>
          /\ rolledBack'[c]
          /\ ret'[c] = "false"
          /\ err'[c] # "nil"
          /\ getDbVersion(rows') = before'[c]]_vars

\* C4: a call whose migration body fails returns false with Err() non-nil,
\* inserts no version row, rolls back, and leaves CurrentVersion() as it was
\* before the call.
C4_BodyFailure ==
  [][\A c \in Procs :
       (stage'[c] = "exec" /\ Returns(c)) =>
          /\ ret'[c] = "false"
          /\ err'[c] # "nil"
          /\ rolledBack'[c] /\ ~tx'[c]
          /\ rows' = rows /\ sel'[c].version \notin rows'
          /\ applied' = applied
          /\ getDbVersion(rows') = before'[c]]_vars

C4_Witness ==
  \E c \in Procs : pc[c] = "idle" /\ stage[c] = "exec" /\ rows # {} /\ rolledBack[c]

\* C5: whenever Upgrade() scans the set, the set is sorted ascending by version.
C5_SortedWhenScanned ==
  [][\A c \in Procs :
       (UpgradeStart(c) /\ stage'[c] # "get db version") => IsSorted(migrations)]_vars

\* C6: a call that returns true has moved CurrentVersion() to the smallest
\* version of the set that exceeds its value before the call.
C6_AppliesGloballyNext ==
  [][\A c \in Procs :
       (Returns(c) /\ ret'[c] = "true") =>
          /\ Pending(migrations, before'[c]) # {}
          /\ getDbVersion(rows') = Min(Pending(migrations, before'[c]))]_vars

\* C7 as stated: after a call returns true Err() is nil; after it returns
\* false Err() is nil exactly if no version of the set exceeded the current one.
C7_ErrIffPending ==
  [][\A c \in Procs :
       Returns(c) =>
          /\ ret'[c] = "true" => err'[c] = "nil"
          /\ ret'[c] = "false" =>
               (err'[c] = "nil" <=> Pending(migrations, before'[c]) = {})]_vars

\* C7 amended: after a call returns true Err() is nil; after it returns false
\* Err() is nil exactly if the version read succeeded and no version of the set
\* exceeded the current one.
C7_ErrOfLastCall ==
  [][\A c \in Procs :
       Returns(c) =>
          /\ ret'[c] \in {"true", "false"}
          /\ ret'[c] = "true" => err'[c] = "nil"
          /\ ret'[c] = "false" =>
               (err'[c] = "nil" <=>
                  (stage'[c] # "get db version" /\ Pending(migrations, before'[c]) = {}))]_vars

\* a call that succeeded right after a call that failed
C7_Witness ==
  \E c \in Procs : pc[c] = "idle" /\ prevFail[c] # 0 /\ ret[c] = "true" /\ err[c] = "nil"

\* C8 as stated: after exhaustion a further call with the set unchanged returns
\* false, leaves Err() nil, opens no transaction, runs no body and leaves the
\* version rows unchanged.
C8_ExhaustedStaysNil ==
  [][\A c \in Procs :
       (exh[c] /\ UpgradeStart(c)) =>
          /\ ret'[c] = "false" /\ pc'[c] = "idle"
          /\ err'[c] = "nil"
          /\ ~tx'[c] /\ ~ran'[c]
          /\ rows' = rows /\ applied' = applied]_vars

\* C8 amended: after exhaustion a further call with the set unchanged returns
\* false, opens no transaction, runs no body and leaves the version rows
\* unchanged; Err() is nil unless the version read of that call failed.
C8_ExhaustedIdempotent ==
  [][\A c \in Procs :
       (exh[c] /\ UpgradeStart(c)) =>
          /\ ret'[c] = "false" /\ pc'[c] = "idle"
          /\ err'[c] = (IF stage'[c] = "get db version" THEN "get db version" ELSE "nil")
          /\ ~tx'[c] /\ ~ran'[c]
          /\ rows' = rows /\ applied' = applied
          /\ getDbVersion(rows') = before'[c]]_vars

\* a call made after exhaustion has returned, with a set that holds migrations
C8_Witness ==
  \E c \in Procs : pc[c] = "idle" /\ exhAtCall[c] /\ ret[c] = "false" /\ rows # {}

\* C9: a failed call leaves the database at the version it began with, and the
\* next call selects the same migration again and executes its body before
\* its version is recorded.
C9_FailedIsRetried ==
  [][\A c \in Procs :
       /\ (Returns(c) /\ failedV'[c] # 0) => getDbVersion(rows') = before'[c]
       /\ (UpgradeStart(c) /\ failedV[c] # 0 /\ stage'[c] # "get db version") =>
             sel'[c].version = failedV[c]
       /\ (UpgradeInsert(c) /\ prevFail[c] # 0 /\ rows' # rows) => ran[c]]_vars

\* C10: a LoadMigrations call that returns an error leaves the set as it was.
C10_NoPartialLoad ==
  [][\A x \in Folders, readDirOk \in BOOLEAN :
       (LoadMigrations(x, readDirOk) /\ loadErr' # "nil") =>
          migrations' = migrations]_vars

\* C11: rows of dbVersion are only ever added, and only by a call of Upgrade()
\* that returns true: no step removes a row, no other operation touches the
\* table, a call that returns false leaves the table as it found it, and
\* CurrentVersion() (-1 without rows, else the greatest version) never decreases.
C11_RowsOnlyByTrue ==
  [][/\ rows \subseteq rows'
     /\ getDbVersion(rows') >= getDbVersion(rows)
     /\ (getDbVersion(rows') = -1) <=> (rows' = {})
     /\ Setup => rows' = rows
     /\ \A c \in Procs :
          (Returns(c) /\ ret'[c] = "false") => getDbVersion(rows') = before'[c]]_vars

\* C12: the engine gives no mutual exclusion between the version read and the
\* commit: a caller that is not inside a call can enter Upgrade() (read the
\* version, select, begin its transaction) wherever the other caller stands,
\* so two callers can hold the same version read, the same selected migration
\* and an executed body at once (C12_Witness).
C12_NoMutualExclusion ==
  \A c \in Procs : (inited /\ pc[c] = "idle") => ENABLED UpgradeStart(c)

C12_Witness ==
  /\ pc["a"] = "insert" /\ pc["b"] = "insert"
  /\ version["a"] = version["b"]
  /\ sel["a"] = sel["b"] /\ sel["a"] # NoMigration
  /\ ran["a"] /\ ran["b"]
  /\ txBody["a"] /\ txBody["b"]

\* the name begins with digits that an underscore follows
StartsWithVersion(name) ==
  \E n \in 1..(Len(name) - 1) : (\A k \in 1..n : IsDigit(name[k])) /\ name[n + 1] = "_"

\* C13: loading classifies an entry by its suffix first and by its name second:
\* a suffix that is neither sql nor so makes LoadMigrations fail with
\* ErrUnknownMigrationType whatever the name, and a recognized suffix on a name
\* that does not begin with digits and an underscore makes it fail with
\* ErrInvalidMigrationFileName, whatever the folder it is loaded from.
C13_SuffixThenName ==
  [][\A x \in Folders :
       LoadMigrations(x, TRUE) =>
         \A i \in 1..Len(x.files) :
            /\ x.files[i].ext \notin Kinds => loadErr' = "ErrUnknownMigrationType"
            /\ (x.files[i].ext \in Kinds /\ ~StartsWithVersion(x.files[i].name)) =>
                  loadErr' = "ErrInvalidMigrationFileName"]_vars

\* C14: the loop `for Upgrade() {}` ends: every call that returns true leaves
\* CurrentVersion() strictly greater than it found it, at a version of the
\* set, so that on an unchanged set the calls that return true are at most as
\* many as the distinct versions of the set above the CurrentVersion() the
\* loop began with (quota never goes below 0); every further call returns false.
C14_TrueReturnsBounded ==
  [][\A c \in Procs :
       (ret'[c] = "true" /\ Returns(c)) =>
          /\ getDbVersion(rows') > before'[c]
          /\ getDbVersion(rows') \in VersionsOf(migrations)
          /\ quota' >= 0]_vars

C14_Witness ==
  /\ pc["a"] = "idle" /\ ret["a"] = "true"
  /\ quota = 0
  /\ Cardinality(VersionsOf(migrations)) > 1
  /\ rows = VersionsOf(migrations)

\* C15: when registering the statement of a declarative migration fails, the
\* body is not executed and Run reports success: the call goes on to the
\* insert with Err() nil, and when it returns true the version has its row
\* although no body effect was committed.  When executing the statement
\* fails, Upgrade() returns false with Err() non-nil and no row for the version.
C15_SoftNoOp ==
  [][\A c \in Procs :
       /\ (regFailed'[c] /\ UpgradeRun(c)) =>
             /\ pc'[c] = "insert"
             /\ ~ran'[c] /\ ~txBody'[c]
             /\ err'[c] = "nil"
       /\ (regFailed[c] /\ ret'[c] = "true" /\ UpgradeCommit(c)) =>
             /\ err'[c] = "nil"
             /\ sel[c].version \in rows'
             /\ applied' = applied
       /\ (stage'[c] = "exec" /\ Returns(c)) =>
             /\ ret'[c] = "false"
             /\ err'[c] # "nil"
             /\ ~regFailed'[c]
             /\ sel'[c].version \notin rows'
             /\ rows' = rows]_vars

C15_Witness ==
  /\ pc["a"] = "idle" /\ ret["a"] = "true" /\ err["a"] = "nil"
  /\ regFailed["a"] /\ sel["a"].kind = "sql"
  /\ sel["a"].version \in rows
  /\ sel["a"].version \notin Range(applied)

\* the steps that fail with the transaction open
TxStages == {"exec", "add version", "commit"}

\* C16: when a failure is followed by a failing rollback, Err() is non-nil and
\* marked as a rollback failure, which the Err() of the same failure with a
\* clean rollback is not; a rollback is attempted exactly when a transaction
\* was opened and the call failed: never after a commit that succeeded, never
\* when beginning the transaction failed.
C16_RollbackFailure ==
  [][\A c \in Procs :
       Returns(c) =>
          /\ rolledBack'[c] <=> stage'[c] \in TxStages
          /\ rollbackErr'[c] => (rolledBack'[c] /\ err'[c] = "rollback")
          /\ (rolledBack'[c] /\ ~rollbackErr'[c]) =>
                (err'[c] = stage'[c] /\ err'[c] # "rollback")
          /\ ret'[c] = "true" => ~rolledBack'[c]
          /\ stage'[c] = "begin tx" => ~rolledBack'[c]]_vars

C16_Witness ==
  /\ pc["a"] = "idle" /\ ret["a"] = "false"
  /\ stage["a"] = "exec"
  /\ rolledBack["a"] /\ rollbackErr["a"]
  /\ err["a"] = "rollback"

\* the steps that fail before a transaction is open
EarlyStages == {"get db version", "begin tx"}

\* C17: when reading the current version fails, or when beginning the
\* transaction fails, Upgrade() returns false with Err() non-nil, and it has
\* opened no transaction, run no body, inserted no row and attempted no rollback.
C17_EarlyFailure ==
  [][\A c \in Procs :
       (stage'[c] \in EarlyStages /\ UpgradeStart(c)) =>
          /\ pc'[c] = "idle"
          /\ ret'[c] = "false"
          /\ err'[c] = stage'[c] /\ err'[c] # "nil"
          /\ ~tx'[c] /\ ~txBody'[c]
          /\ ~ran'[c]
          /\ ~rolledBack'[c]
          /\ rows' = rows /\ applied' = applied]_vars

C17_Witness ==
  /\ pc["a"] = "idle" /\ ret["a"] = "false"
  /\ stage["a"] = "begin tx" /\ err["a"] = "begin tx"
  /\ sel["a"] # NoMigration
  /\ ~tx["a"] /\ ~ran["a"] /\ ~rolledBack["a"]
  /\ sel["a"].version \notin rows

\* the places of the set that hold version v, and the first of them
PlacesOf(ms, v) == {i \in 1..Len(ms) : ms[i].version = v}
FirstOf(ms, v) == Min(PlacesOf(ms, v))
Duplicated(ms, v) == Cardinality(PlacesOf(ms, v)) > 1

\* C18 (as stated): of several migrations with the same version exactly one is
\* executed, the first in list order: when Upgrade() has recorded such a
\* version and returned true, the body of the first of them was executed.
C18_ExactlyOneExecuted ==
  [][\A c \in Procs :
       (ret'[c] = "true" /\ Returns(c) /\ Duplicated(migrations, sel'[c].version)) =>
          /\ idx'[c] = FirstOf(migrations, sel'[c].version)
          /\ ran'[c]]_vars

\* C18 (amended): of several migrations with the same version at most one is
\* ever executed: whatever a call selects, runs and records is the first
\* migration of its version in list order, and its version exceeds the
\* current version and has no row when the insert is attempted.
C18_OnlyFirstDuplicate ==
  [][\A c \in Procs :
       /\ (idx'[c] # 0 /\ UpgradeStart(c)) =>
             /\ sel'[c] = migrations[idx'[c]]
             /\ idx'[c] = FirstOf(migrations, sel'[c].version)
             /\ sel'[c].version > getDbVersion(rows)
       /\ UpgradeRun(c) =>
             /\ sel[c] = migrations[idx[c]]
             /\ idx[c] = FirstOf(migrations, sel[c].version)
       /\ UpgradeInsert(c) =>
             /\ sel[c].version > getDbVersion(rows)
             /\ sel[c].version \notin rows]_vars

C18_Witness ==
  /\ pc["a"] = "idle" /\ ret["a"] = "true"
  /\ Duplicated(migrations, sel["a"].version)
  /\ idx["a"] = FirstOf(migrations, sel["a"].version)
  /\ migrations[1].kind # migrations[2].kind
  /\ ran["a"]
  /\ rows = {sel["a"].version}

\* C19: two callers that race on the same next version v: the caller whose
\* insert finds the row of v in place returns false with Err() non-nil after
\* rolling back its transaction, leaving table and body effects alone; a
\* caller that returns true for v leaves v with its row, commits the body
\* effects of v for the first time, and no other caller has returned true for v.
C19_RaceOneWinner ==
  [][\A c \in Procs :
       /\ (sel[c].version \in rows /\ UpgradeInsert(c)) =>
             /\ pc'[c] = "idle" /\ ret'[c] = "false"
             /\ err'[c] # "nil"
             /\ rolledBack'[c] /\ ~tx'[c] /\ ~txBody'[c]
             /\ rows' = rows /\ applied' = applied
       /\ (ret'[c] = "true" /\ UpgradeCommit(c)) =>
             /\ sel[c].version \in rows'
             /\ sel[c].version \notin Range(applied)
             /\ \A d \in Procs \ {c} :
                   ~(ret'[d] = "true" /\ sel'[d].version = sel[c].version)]_vars

C19_Witness ==
  /\ pc["a"] = "idle" /\ pc["b"] = "idle"
  /\ version["a"] = version["b"]
  /\ sel["a"] = sel["b"] /\ sel["a"] # NoMigration
  /\ ran["a"] /\ ran["b"]
  /\ ret["a"] = "true"
  /\ ret["b"] = "false" /\ stage["b"] = "add version" /\ err["b"] # "nil"
  /\ rolledBack["b"]
  /\ applied = <<sel["a"].version>>
  /\ rows = {sel["a"].version}

====
